---- MODULE Spec2Model ----
(***************************************************************************)
(* Model of agent_simulation.py: keyword classification of alerts,         *)
(* governance-gated routing, the decision log (in-memory list and SQLite   *)
(* table), the live-alert cache and the batch cleanup.                     *)
(*                                                                         *)
(* Text is modelled as a sequence of one-character strings so that         *)
(* lower() and the substring test `kw in content` are computed.            *)
(***************************************************************************)
EXTENDS Integers, Sequences, FiniteSets, TLC

(***************************************************************************)
(* Bounds of the model.                                                    *)
(***************************************************************************)
\* alert ids are 1..MaxId
MaxId == 2
\* a run appends at most MaxLog decision records
MaxLog == 5
\* the clock (seconds) runs over 0..MaxClock; every log_decision reads it, and
\* a reading is never earlier than the one before
MaxClock == 0
\* a classified content is made of at most MaxWords words
MaxWords == 2

(***************************************************************************)
(* Program constants.                                                      *)
(***************************************************************************)
REQUIRED_CLEARANCE == 5
InitialClearance == 4

Ids == 1..MaxId
\* clearance levels the external setter may choose: below, at and above the
\* threshold
ClearanceLevels == (REQUIRED_CLEARANCE - 1)..(REQUIRED_CLEARANCE + 1)

(***************************************************************************)
(* Text.                                                                   *)
(***************************************************************************)
UpperCase ==
  <<"A","B","C","D","E","F","G","H","I","J","K","L","M",
    "N","O","P","Q","R","S","T","U","V","W","X","Y","Z">>
LowerCase ==
  <<"a","b","c","d","e","f","g","h","i","j","k","l","m",
    "n","o","p","q","r","s","t","u","v","w","x","y","z">>

\* str.lower(): every cased character is mapped to lower case
lower(s) ==
  [i \in 1..Len(s) |->
     IF \E k \in 1..Len(UpperCase) : UpperCase[k] = s[i]
       THEN LowerCase[CHOOSE k \in 1..Len(UpperCase) : UpperCase[k] = s[i]]
       ELSE s[i]]

\* `kw in content` on strings: kw occurs as a contiguous substring
contains(content, kw) ==
  \E i \in 0..(Len(content) - Len(kw)) :
     \A j \in 1..Len(kw) : content[i + j] = kw[j]

high_keywords ==
  << <<"m","a","l","w","a","r","e">>,
     <<"r","a","n","s","o","m","w","a","r","e">>,
     <<"c","r","i","t","i","c","a","l">> >>
medium_keywords ==
  << <<"e","r","r","o","r">>,
     <<"f","a","i","l","e","d">>,
     <<"p","h","i","s","h","i","n","g">>,
     <<"s","c","a","n">>,
     <<"s","c","a","n","n","i","n","g">> >>

\* dict.get(key, default)
dict_get(d, key, default) == IF key \in DOMAIN d THEN d[key] ELSE default

\* `for kw in kws: if kw in content: return ...` reaches its return
RECURSIVE any_keyword(_, _, _)
any_keyword(kws, content, i) ==
  IF i > Len(kws) THEN FALSE
  ELSE IF contains(content, kws[i]) THEN TRUE
  ELSE any_keyword(kws, content, i + 1)

classify_alert_medium_first(alert) ==
  LET content == lower(dict_get(alert, "content", <<>>))
  IN  IF any_keyword(medium_keywords, content, 1) THEN "Medium"
      ELSE IF any_keyword(high_keywords, content, 1) THEN "High"
      ELSE "Low"

classify_alert(alert) ==
  LET content == lower(dict_get(alert, "content", <<>>))
  IN  IF any_keyword(high_keywords, content, 1) THEN "High"
      ELSE IF any_keyword(medium_keywords, content, 1) THEN "Medium"
      ELSE "Low"

\* Alert contents the feed may deliver
Contents ==
  { <<"M","a","l","w","a","r","e"," ","s","c","a","n">>,
    <<"S","c","a","n","n","i","n","g">>,
    <<"o","k">> }

\* Alert records as delivered: {id, content}, or {id} with the content missing
Alerts ==
  {[id |-> i, content |-> c] : i \in Ids, c \in Contents} \cup {[id |-> i] : i \in Ids}

\* classify_alert tabulated over the alerts of the feed
severity_of == [a \in Alerts |-> classify_alert(a)]

(***************************************************************************)
(* Conversions used by log_decision.                                       *)
(***************************************************************************)
Digits == <<"0","1","2","3","4","5","6","7","8","9">>

\* str(n) for a non-negative integer: its decimal digits.  (str of a string,
\* as in log_decision("batch", ...), is the string itself.)
RECURSIVE str(_)
str(n) == IF n < 10 THEN Digits[n + 1] ELSE str(n \div 10) \o Digits[(n % 10) + 1]

\* utcnow().strftime("%Y-%m-%dT%H:%M:%SZ"); the clock counts the seconds of
\* the first minute of a fixed day
strftime(t) ==
  "2024-01-01T00:00:" \o (IF t < 10 THEN "0" \o str(t) ELSE str(t)) \o "Z"

\* strftime tabulated over the clock readings
timestamp_of == [t \in 0..MaxClock |-> strftime(t)]

RECURSIVE json_list(_, _)
json_list(xs, i) ==
  IF i > Len(xs) THEN ""
  ELSE (IF i > 1 THEN ", " ELSE "") \o str(xs[i]) \o json_list(xs, i + 1)

json_str(s) == "\"" \o s \o "\""

\* json.dumps(detail) for the detail dictionaries the callers build (keys in
\* insertion order, separators ", " and ": ")
json_dumps(detail) ==
  IF "severity" \in DOMAIN detail
    THEN "{\"severity\": " \o json_str(detail.severity) \o "}"
  ELSE IF "removed_alerts" \in DOMAIN detail
    THEN "{\"removed_alerts\": [" \o json_list(detail.removed_alerts, 1) \o "]}"
  ELSE IF "destination" \in DOMAIN detail
    THEN "{\"destination\": " \o json_str(detail.destination) \o "}"
  ELSE IF "target" \in DOMAIN detail
    THEN "{\"decision\": " \o json_str(detail.decision)
         \o ", \"target\": " \o json_str(detail.target) \o "}"
  ELSE IF "reason" \in DOMAIN detail
    THEN "{\"decision\": " \o json_str(detail.decision)
         \o ", \"reason\": " \o json_str(detail.reason)
         \o ", \"required_clearance\": " \o str(detail.required_clearance)
         \o (IF "actual_clearance" \in DOMAIN detail
               THEN ", \"actual_clearance\": " \o str(detail.actual_clearance)
               ELSE "")
         \o "}"
  ELSE "{\"decision\": " \o json_str(detail.decision) \o "}"

(***************************************************************************)
(* The live_alerts dictionary: a sequence of entries in insertion order,   *)
(* [id, severity, status], at most one per id.                             *)
(***************************************************************************)
has_key(d, k) == \E i \in 1..Len(d) : d[i].id = k

item(d, k) == d[CHOOSE i \in 1..Len(d) : d[i].id = k]

dict_set_default(d, k, info) ==
  IF has_key(d, k) THEN d
  ELSE Append(d, [id |-> k, severity |-> info.severity, status |-> info.status])

dict_set_only(d, k, info) ==
  <<[id |-> k, severity |-> info.severity, status |-> info.status]>>

\* d[k] = info : an existing key keeps its position, a new one goes last
dict_set(d, k, info) ==
  LET e == [id |-> k, severity |-> info.severity, status |-> info.status]
  IN  IF has_key(d, k)
        THEN [i \in 1..Len(d) |-> IF d[i].id = k THEN e ELSE d[i]]
        ELSE Append(d, e)

dict_pop_keeps(d, k) == d

dict_pop_marks(d, k) ==
  [i \in 1..Len(d) |-> IF d[i].id = k THEN [d[i] EXCEPT !.status = "resolved"]
                       ELSE d[i]]

\* d.pop(k) / d.pop(k, None)
dict_pop(d, k) == SelectSeq(d, LAMBDA e : e.id # k)

(***************************************************************************)
(* The program state handed through the operations:                        *)
(*   st.live_alerts, st.decision_logs, st.alerts_log                       *)
(***************************************************************************)
log_decision_prepends(st, t, alert_id, action, detail) ==
  LET entry == detail @@ [timestamp |-> timestamp_of[t], alert_id |-> alert_id,
                          action |-> action]
  IN  [st EXCEPT !.decision_logs = <<entry>> \o @,
                 !.alerts_log = Append(@, <<alert_id, action, json_dumps(detail),
                                            entry.timestamp>>)]

\* log_decision(alert_id, action, detail) with a dictionary detail, the clock
\* reading t; alert_id is the text str(alert_id).  entry.update(detail) lets
\* the detail's keys win.
log_decision(st, t, alert_id, action, detail) ==
  LET entry == detail @@ [timestamp |-> timestamp_of[t], alert_id |-> alert_id,
                          action |-> action]
  IN  [st EXCEPT !.decision_logs = Append(@, entry),
                 !.alerts_log = Append(@, <<alert_id, action, json_dumps(detail),
                                            entry.timestamp>>)]

(***************************************************************************)
(* route_alert.                                                            *)
(***************************************************************************)
escalation_branch_clearance_first(token, clearance) ==
  IF clearance < REQUIRED_CLEARANCE THEN "insufficient_clearance"
  ELSE IF ~token THEN "no_token"
  ELSE "approved"

escalation_branch_stale(token, clearance) ==
  IF ~token THEN "no_token"
  ELSE IF InitialClearance < REQUIRED_CLEARANCE THEN "insufficient_clearance"
  ELSE "approved"

\* The if / elif / else chain of the High branch: which arm is taken
escalation_branch(token, clearance) ==
  IF ~token THEN "no_token"
  ELSE IF clearance < REQUIRED_CLEARANCE THEN "insufficient_clearance"
  ELSE "approved"

escalation_detail_threshold_twice(branch, clearance) ==
  IF branch = "no_token"
    THEN [decision |-> "denied", reason |-> "no_token",
          required_clearance |-> REQUIRED_CLEARANCE]
  ELSE IF branch = "insufficient_clearance"
    THEN [decision |-> "denied", reason |-> "insufficient_clearance",
          required_clearance |-> REQUIRED_CLEARANCE,
          actual_clearance |-> REQUIRED_CLEARANCE]
  ELSE [decision |-> "approved", target |-> "Incident Response"]

\* The detail dictionary each arm of the High branch logs
escalation_detail(branch, clearance) ==
  IF branch = "no_token"
    THEN [decision |-> "denied", reason |-> "no_token",
          required_clearance |-> REQUIRED_CLEARANCE]
  ELSE IF branch = "insufficient_clearance"
    THEN [decision |-> "denied", reason |-> "insufficient_clearance",
          required_clearance |-> REQUIRED_CLEARANCE,
          actual_clearance |-> clearance]
  ELSE [decision |-> "approved", target |-> "Incident Response"]

\* route_alert(alert), reading the governance globals token and clearance and
\* the clock reading t of its log_decision call.  Each arm logs first, then
\* sets alert["status"], then updates live_alerts.
route_alert(st, alert, token, clearance, t) ==
  LET aid == alert.id
      sev == alert.severity
  IN
  IF sev = "High" THEN
    LET branch == escalation_branch(token, clearance)
        logged == log_decision(st, t, str(aid), "escalation",
                               escalation_detail(branch, clearance))
    IN  IF branch = "approved"
          THEN LET alert2 == ("status" :> "escalated") @@ alert
               IN  [alert |-> alert2,
                    st |-> [logged EXCEPT !.live_alerts =
                              IF has_key(@, aid) THEN dict_pop(@, aid) ELSE @]]
          ELSE LET alert2 == ("status" :> "unresolved") @@ alert
               IN  [alert |-> alert2,
                    st |-> [logged EXCEPT !.live_alerts =
                              dict_set(@, aid, [severity |-> sev,
                                                status |-> alert2.status])]]
  ELSE IF sev = "Medium" THEN
    LET logged == log_decision(st, t, str(aid), "routing",
                               [destination |-> "Tier-2 Support"])
        alert2 == ("status" :> "unresolved") @@ alert
    IN  [alert |-> alert2,
         st |-> [logged EXCEPT !.live_alerts =
                   dict_set(@, aid, [severity |-> sev, status |-> alert2.status])]]
  ELSE
    LET logged == log_decision(st, t, str(aid), "auto_resolution",
                               [decision |-> "closed"])
        alert2 == ("status" :> "resolved") @@ alert
    IN  [alert |-> alert2,
         st |-> [logged EXCEPT !.live_alerts =
                   IF has_key(@, aid) THEN dict_pop(@, aid) ELSE @]]

(***************************************************************************)
(* process_alert.                                                          *)
(***************************************************************************)
process_alert_routes_first(st, alert, token, clearance, t1, t2) ==
  LET severity == severity_of[alert]
      alert1   == ("severity" :> severity) @@ alert
      routed   == route_alert(st, alert1, token, clearance, t1)
  IN  [alert |-> routed.alert,
       st |-> log_decision(routed.st, t2, str(alert.id), "classification",
                           [severity |-> severity])]

\* process_alert(alert): classify, log the classification (clock reading t1),
\* route (clock reading t2); returns the alert
process_alert(st, alert, token, clearance, t1, t2) ==
  LET severity == severity_of[alert]
      alert1   == ("severity" :> severity) @@ alert
      logged   == log_decision(st, t1, str(alert1.id), "classification",
                               [severity |-> severity])
  IN  route_alert(logged, alert1, token, clearance, t2)

(***************************************************************************)
(* batch_cleanup.                                                          *)
(***************************************************************************)
TerminalStatuses == {"resolved", "escalated"}

RECURSIVE cleanup_loop_escalated_only(_, _, _, _)
cleanup_loop_escalated_only(items, i, cache, removed) ==
  IF i > Len(items) THEN [live_alerts |-> cache, removed |-> removed]
  ELSE IF dict_get(items[i], "status", "None") \in {"escalated"}
    THEN cleanup_loop_escalated_only(items, i + 1, dict_pop(cache, items[i].id),
                                     Append(removed, items[i].id))
    ELSE cleanup_loop_escalated_only(items, i + 1, cache, removed)

RECURSIVE cleanup_loop_all(_, _, _, _)
cleanup_loop_all(items, i, cache, removed) ==
  IF i > Len(items) THEN [live_alerts |-> cache, removed |-> removed]
  ELSE cleanup_loop_all(items, i + 1, dict_pop(cache, items[i].id),
                        Append(removed, items[i].id))

RECURSIVE cleanup_loop_no_pop(_, _, _, _)
cleanup_loop_no_pop(items, i, cache, removed) ==
  IF i > Len(items) THEN [live_alerts |-> cache, removed |-> removed]
  ELSE IF dict_get(items[i], "status", "None") \in TerminalStatuses
    THEN cleanup_loop_no_pop(items, i + 1, cache, Append(removed, items[i].id))
    ELSE cleanup_loop_no_pop(items, i + 1, cache, removed)

\* for aid, info in list(live_alerts.items()): the loop over the snapshot
\* items, from position i, with the dictionary and the removed list so far
RECURSIVE cleanup_loop(_, _, _, _)
cleanup_loop(items, i, cache, removed) ==
  IF i > Len(items) THEN [live_alerts |-> cache, removed |-> removed]
  ELSE IF dict_get(items[i], "status", "None") \in TerminalStatuses
    THEN cleanup_loop(items, i + 1, dict_pop(cache, items[i].id),
                      Append(removed, items[i].id))
    ELSE cleanup_loop(items, i + 1, cache, removed)

batch_cleanup_logs_if_removed(st, t) ==
  LET r == cleanup_loop(st.live_alerts, 1, st.live_alerts, <<>>)
      swept == [st EXCEPT !.live_alerts = r.live_alerts]
  IN  [removed |-> r.removed,
       st |-> IF r.removed = <<>> THEN swept
              ELSE log_decision(swept, t, "batch", "cleanup",
                                [removed_alerts |-> r.removed])]

\* batch_cleanup(): sweep, then one log_decision("batch", "cleanup", ...) with
\* clock reading t; returns the removed list
batch_cleanup(st, t) ==
  LET r == cleanup_loop(st.live_alerts, 1, st.live_alerts, <<>>)
  IN  [removed |-> r.removed,
       st |-> log_decision([st EXCEPT !.live_alerts = r.live_alerts], t, "batch",
                           "cleanup", [removed_alerts |-> r.removed])]

\* live_alerts[aid]["status"] = "resolved", done by the downstream resolver
mark_resolved(d, aid) ==
  [i \in 1..Len(d) |-> IF d[i].id = aid THEN [d[i] EXCEPT !.status = "resolved"]
                       ELSE d[i]]

(***************************************************************************)
(* State.                                                                  *)
(***************************************************************************)
VARIABLES
  live_alerts,            \* the live_alerts dictionary
  agent_token_present,    \* governance: capability flag
  agent_clearance_level,  \* governance: clearance level
  decision_logs,          \* the in-memory decision list
  alerts_log,             \* the rows of the SQLite table alerts_log
  now,                    \* the clock reading of the latest log_decision
  calls,                  \* number of process_alert / batch_cleanup calls made
  lastCall,               \* the latest call that touched cache or log: of
                          \* process_alert the alert's id, the severity and
                          \* status set on it and the governance values the
                          \* call read; of batch_cleanup the returned list
  lastKnown,              \* per alert id, the status most recently written
                          \* for it (by route_alert or by the resolver)
  sweep                   \* the frame of a batch_cleanup call in progress:
                          \* the snapshot list, the loop position, removed

vars == <<live_alerts, agent_token_present, agent_clearance_level,
          decision_logs, alerts_log, now, calls, lastCall, lastKnown, sweep>>

state == [live_alerts |-> live_alerts, decision_logs |-> decision_logs,
          alerts_log |-> alerts_log]

\* No batch_cleanup call is in progress
NoSweep == [active |-> FALSE]

Init ==
  /\ sweep = NoSweep
  /\ live_alerts = <<>>
  /\ agent_token_present = TRUE
  /\ agent_clearance_level = InitialClearance
  /\ decision_logs = <<>>
  /\ alerts_log = <<>>
  /\ now = 0
  /\ calls = 0
  /\ lastCall = [op |-> "none"]
  /\ lastKnown = [i \in Ids |-> "none"]

(***************************************************************************)
(* Operations.                                                             *)
(***************************************************************************)
\* The stream loop's body: process_alert(alert) for an alert of the feed
ProcessAlert(a, t1, t2) ==
  /\ Len(decision_logs) + 2 <= MaxLog
  /\ calls < MaxLog
  /\ \E r \in {process_alert(state, a, agent_token_present,
                            agent_clearance_level, t1, t2)} :
         /\ live_alerts' = r.st.live_alerts
         /\ decision_logs' = r.st.decision_logs
         /\ alerts_log' = r.st.alerts_log
         /\ lastCall' = [op |-> "process_alert", id |-> r.alert.id,
                          severity |-> r.alert.severity,
                          status |-> r.alert.status,
                          token |-> agent_token_present,
                          clearance |-> agent_clearance_level]
         /\ lastKnown' = [lastKnown EXCEPT ![a.id] = r.alert.status]
  /\ now' = t2
  /\ calls' = calls + 1
  /\ UNCHANGED <<sweep, agent_token_present, agent_clearance_level>>

\* The clearance is changed from outside between two alerts
SetClearance(c) ==
  /\ Len(decision_logs) + 2 <= MaxLog
  /\ agent_clearance_level' = c
  /\ UNCHANGED <<sweep, live_alerts, agent_token_present, decision_logs, alerts_log,
                 now, calls, lastCall, lastKnown>>

\* The token is granted or withdrawn from outside
SetToken(b) ==
  /\ Len(decision_logs) + 2 <= MaxLog
  /\ agent_token_present' = b
  /\ UNCHANGED <<sweep, live_alerts, agent_clearance_level, decision_logs, alerts_log,
                 now, calls, lastCall, lastKnown>>

\* A cached alert is marked resolved by the downstream resolver
MarkResolved(aid) ==
  /\ Len(decision_logs) + 1 <= MaxLog
  /\ has_key(live_alerts, aid)
  /\ live_alerts' = mark_resolved(live_alerts, aid)
  /\ lastCall' = [op |-> "mark_resolved", id |-> aid]
  /\ lastKnown' = [lastKnown EXCEPT ![aid] = "resolved"]
  /\ UNCHANGED <<sweep, agent_token_present, agent_clearance_level, decision_logs,
                 alerts_log, now, calls>>

\* removed_ids = batch_cleanup()
BatchCleanup(t) ==
  /\ Len(decision_logs) + 1 <= MaxLog
  /\ calls < MaxLog
  /\ \E r \in {batch_cleanup(state, t)} :
         /\ live_alerts' = r.st.live_alerts
         /\ decision_logs' = r.st.decision_logs
         /\ alerts_log' = r.st.alerts_log
         /\ lastCall' = [op |-> "batch_cleanup", removed |-> r.removed]
  /\ now' = t
  /\ calls' = calls + 1
  /\ UNCHANGED <<sweep, agent_token_present, agent_clearance_level, lastKnown>>

\* Clock readings not before the reading r
Later(r) == r..MaxClock

Next ==
  \/ \E a \in Alerts : \E t1 \in Later(now) : \E t2 \in Later(t1) :
        ProcessAlert(a, t1, t2)
  \/ \E c \in ClearanceLevels : SetClearance(c)
  \/ \E b \in BOOLEAN : SetToken(b)
  \/ \E aid \in Ids : MarkResolved(aid)
  \/ \E t \in Later(now) : BatchCleanup(t)

Spec == Init /\ [][Next]_vars

(***************************************************************************)
(* Properties.                                                             *)
(***************************************************************************)
Last(s) == s[Len(s)]

IsPrefix(s, t) == Len(s) <= Len(t) /\ SubSeq(t, 1, Len(s)) = s

CacheIds(d) == {d[i].id : i \in 1..Len(d)}

RoutingActions == {"escalation", "routing", "auto_resolution"}

\* The step is a process_alert call / a batch_cleanup call
ProcessStep == calls' = calls + 1 /\ lastCall'.op = "process_alert"
SweepStep == calls' = calls + 1 /\ lastCall'.op = "batch_cleanup"

\* The latest call processed a High alert
HighProcessed == lastCall.op = "process_alert" /\ lastCall.severity = "High"

\* C1: a High alert routed with the token present and clearance at or above
\* the threshold gets an escalation record "approved" with target "Incident
\* Response", status escalated, and its id is not in live_alerts afterwards,
\* also when it was cached before.
C1_ApprovedEscalation ==
  (HighProcessed /\ lastCall.token /\ lastCall.clearance >= REQUIRED_CLEARANCE)
    => LET rec == Last(decision_logs)
       IN  /\ rec.action = "escalation"
           /\ rec.alert_id = str(lastCall.id)
           /\ dict_get(rec, "decision", "") = "approved"
           /\ dict_get(rec, "target", "") = "Incident Response"
           /\ lastCall.status = "escalated"
           /\ ~has_key(live_alerts, lastCall.id)

\* An approval of an alert that an earlier denial had put into the cache
C1_Witness ==
  /\ HighProcessed /\ lastCall.token /\ lastCall.clearance >= REQUIRED_CLEARANCE
  /\ lastCall.status = "escalated"
  /\ \E i \in 1..(Len(decision_logs) - 2) :
        /\ decision_logs[i].action = "escalation"
        /\ decision_logs[i].decision = "denied"
        /\ decision_logs[i].alert_id = str(lastCall.id)
  /\ ~has_key(live_alerts, lastCall.id)

\* C2: a High alert routed with the token absent is denied with reason
\* no_token whatever the clearance level, its status is unresolved and
\* live_alerts maps its id to {severity High, status unresolved}.
C2_NoTokenDenied ==
  (HighProcessed /\ ~lastCall.token)
    => LET rec == Last(decision_logs)
       IN  /\ rec.action = "escalation"
           /\ rec.alert_id = str(lastCall.id)
           /\ dict_get(rec, "decision", "") = "denied"
           /\ dict_get(rec, "reason", "") = "no_token"
           /\ lastCall.status = "unresolved"
           /\ has_key(live_alerts, lastCall.id)
           /\ item(live_alerts, lastCall.id) =
                [id |-> lastCall.id, severity |-> "High", status |-> "unresolved"]

\* A no_token denial at a clearance that would have sufficed
C2_Witness ==
  /\ HighProcessed /\ ~lastCall.token
  /\ lastCall.clearance >= REQUIRED_CLEARANCE
  /\ dict_get(Last(decision_logs), "reason", "") = "no_token"
  /\ has_key(live_alerts, lastCall.id)

\* C3: a High alert routed with the token present and clearance below the
\* threshold is denied with reason insufficient_clearance; the record carries
\* the threshold and the clearance read at the call; status unresolved and
\* the id is in live_alerts with status unresolved.
C3_InsufficientClearanceDenied ==
  (HighProcessed /\ lastCall.token /\ lastCall.clearance < REQUIRED_CLEARANCE)
    => LET rec == Last(decision_logs)
       IN  /\ rec.action = "escalation"
           /\ rec.alert_id = str(lastCall.id)
           /\ dict_get(rec, "decision", "") = "denied"
           /\ dict_get(rec, "reason", "") = "insufficient_clearance"
           /\ dict_get(rec, "required_clearance", -1) = REQUIRED_CLEARANCE
           /\ dict_get(rec, "actual_clearance", -1) = lastCall.clearance
           /\ lastCall.status = "unresolved"
           /\ has_key(live_alerts, lastCall.id)
           /\ item(live_alerts, lastCall.id).status = "unresolved"

C3_Witness ==
  /\ HighProcessed /\ lastCall.token /\ lastCall.clearance < REQUIRED_CLEARANCE
  /\ dict_get(Last(decision_logs), "reason", "") = "insufficient_clearance"
  /\ dict_get(Last(decision_logs), "actual_clearance", -1) = InitialClearance
  /\ has_key(live_alerts, lastCall.id)

\* C4: a routing decision uses the governance values current at its call:
\* in every process_alert step of a High alert the escalation is approved
\* exactly if, in the state the call starts from, the token is present and the
\* clearance is at or above the threshold (then the id leaves the cache), and
\* otherwise the denial names the gate that failed in that state.
C4_GovernanceReadAtCall ==
  [][(ProcessStep /\ lastCall'.severity = "High")
       => LET rec == Last(decision_logs')
              authorized == agent_token_present
                            /\ agent_clearance_level >= REQUIRED_CLEARANCE
          IN  /\ (dict_get(rec, "decision", "") = "approved") <=> authorized
              /\ authorized => ~has_key(live_alerts', lastCall'.id)
              /\ ~authorized =>
                   /\ dict_get(rec, "reason", "") =
                        (IF agent_token_present THEN "insufficient_clearance"
                         ELSE "no_token")
                   /\ has_key(live_alerts', lastCall'.id)]_vars

\* Denied at clearance 4, processed again at clearance 5: approved, uncached
C4_Witness ==
  /\ Len(decision_logs) = 4
  /\ decision_logs[2].action = "escalation"
  /\ decision_logs[2].decision = "denied"
  /\ dict_get(decision_logs[2], "actual_clearance", -1) = 4
  /\ decision_logs[4].action = "escalation"
  /\ decision_logs[4].decision = "approved"
  /\ decision_logs[4].alert_id = decision_logs[2].alert_id
  /\ HighProcessed /\ lastCall.clearance = 5
  /\ ~has_key(live_alerts, lastCall.id)

\* C5: every process_alert call appends exactly two records for the alert's
\* id: the classification record with the assigned severity, then one
\* routing-step record; and in the log every routing-step record directly
\* follows the classification record of the same id.
C5_ClassificationThenRouting ==
  [][/\ ProcessStep =>
          /\ Len(decision_logs') = Len(decision_logs) + 2
          /\ IsPrefix(decision_logs, decision_logs')
          /\ LET r1 == decision_logs'[Len(decision_logs) + 1]
                 r2 == decision_logs'[Len(decision_logs) + 2]
             IN  /\ r1.action = "classification"
                 /\ r1.alert_id = str(lastCall'.id)
                 /\ dict_get(r1, "severity", "") = lastCall'.severity
                 /\ r2.action \in RoutingActions
                 /\ r2.alert_id = str(lastCall'.id)
     /\ \A i \in 1..Len(decision_logs') :
          decision_logs'[i].action \in RoutingActions
            => /\ i > 1
               /\ decision_logs'[i - 1].action = "classification"
               /\ decision_logs'[i - 1].alert_id = decision_logs'[i].alert_id]_vars

C5_Witness ==
  /\ lastCall.op = "process_alert"
  /\ Len(decision_logs) >= 2
  /\ decision_logs[Len(decision_logs) - 1].action = "classification"
  /\ decision_logs[Len(decision_logs) - 1].severity = lastCall.severity
  /\ Last(decision_logs).action \in RoutingActions

\* C6: live_alerts holds exactly the ids whose most recently written status
\* is unresolved, apart from entries the resolver has marked resolved and no
\* sweep has evicted yet: the stored status is the most recently written one,
\* every id last written unresolved is cached, an id whose routing ended
\* escalated or resolved is not cached once the call is over, and after a
\* sweep only the unresolved ids are cached.
C6_CacheHoldsUnresolved ==
  /\ \A i, j \in 1..Len(live_alerts) :
        live_alerts[i].id = live_alerts[j].id => i = j
  /\ \A i \in 1..Len(live_alerts) :
        live_alerts[i].status = lastKnown[live_alerts[i].id]
  /\ \A aid \in Ids : lastKnown[aid] = "unresolved" => has_key(live_alerts, aid)
  /\ (lastCall.op = "process_alert" /\ lastCall.status \in TerminalStatuses)
        => ~has_key(live_alerts, lastCall.id)
  /\ lastCall.op = "batch_cleanup"
        => CacheIds(live_alerts) = {aid \in Ids : lastKnown[aid] = "unresolved"}

\* A sweep has evicted an externally resolved id and kept an unresolved one
C6_Witness ==
  /\ lastCall.op = "batch_cleanup"
  /\ \E aid \in Ids : /\ lastKnown[aid] = "resolved"
                      /\ ~has_key(live_alerts, aid)
                      /\ \E i \in 1..Len(lastCall.removed) : lastCall.removed[i] = aid
  /\ \E aid \in Ids : lastKnown[aid] = "unresolved" /\ has_key(live_alerts, aid)

\* C7: the audit log is append-only: in every step the decision list and the
\* alerts_log table before the step are prefixes of those after it.
C7_AppendOnly ==
  [][/\ IsPrefix(decision_logs, decision_logs')
     /\ IsPrefix(alerts_log, alerts_log')]_vars

\* A log written by a process_alert call and a later batch_cleanup call
C7_Witness ==
  /\ Len(decision_logs) >= 3
  /\ decision_logs[1].action = "classification"
  /\ decision_logs[2].action \in RoutingActions
  /\ Last(decision_logs).action = "cleanup"

\* C8: a sweep removes exactly the entries whose stored status is resolved or
\* escalated, returns exactly their ids (each once), and leaves every other
\* entry as it was, in place.
C8_SweepRemovesTerminal ==
  [][SweepStep =>
       LET terminal == {aid \in CacheIds(live_alerts) :
                          item(live_alerts, aid).status \in TerminalStatuses}
           removed == lastCall'.removed
       IN  /\ CacheIds(live_alerts') = CacheIds(live_alerts) \ terminal
           /\ {removed[i] : i \in 1..Len(removed)} = terminal
           /\ Len(removed) = Cardinality(terminal)
           /\ live_alerts' =
                SelectSeq(live_alerts, LAMBDA e : e.status = "unresolved")]_vars

\* A cached unresolved Medium alert was marked resolved; the sweep returned
\* only its id and another unresolved entry stayed
C8_Witness ==
  /\ lastCall.op = "batch_cleanup"
  /\ Len(lastCall.removed) = 1
  /\ lastKnown[lastCall.removed[1]] = "resolved"
  /\ \E i \in 1..Len(decision_logs) :
        /\ decision_logs[i].action = "routing"
        /\ decision_logs[i].alert_id = str(lastCall.removed[1])
  /\ Len(live_alerts) = 1
  /\ live_alerts[1].status = "unresolved"

\* C9: every sweep appends exactly one record: action cleanup, alert id
\* "batch", removed_alerts the list the sweep returned, which lists the ids it
\* evicted; also when nothing is evicted.
C9_OneCleanupRecord ==
  [][SweepStep =>
       /\ Len(decision_logs') = Len(decision_logs) + 1
       /\ IsPrefix(decision_logs, decision_logs')
       /\ LET rec == Last(decision_logs')
          IN  /\ rec.action = "cleanup"
              /\ rec.alert_id = "batch"
              /\ rec.removed_alerts = lastCall'.removed
              /\ {rec.removed_alerts[i] : i \in 1..Len(rec.removed_alerts)}
                   = CacheIds(live_alerts) \ CacheIds(live_alerts')]_vars

\* A sweep that evicted nothing has logged its record
C9_Witness ==
  /\ lastCall.op = "batch_cleanup"
  /\ lastCall.removed = <<>>
  /\ Last(decision_logs).action = "cleanup"
  /\ Last(decision_logs).alert_id = "batch"
  /\ Last(decision_logs).removed_alerts = <<>>

\* C10: a sweep that follows a sweep, with no routing and no resolver update
\* in between, returns the empty list and leaves live_alerts as it was.
C10_SweepIdempotent ==
  [][(SweepStep /\ lastCall.op = "batch_cleanup")
       => /\ lastCall'.removed = <<>>
          /\ live_alerts' = live_alerts]_vars

\* Two sweeps in a row, the first of which evicted something
C10_Witness ==
  /\ Len(decision_logs) >= 2
  /\ decision_logs[Len(decision_logs) - 1].action = "cleanup"
  /\ decision_logs[Len(decision_logs) - 1].removed_alerts # <<>>
  /\ Last(decision_logs).action = "cleanup"
  /\ Last(decision_logs).removed_alerts = <<>>
  /\ lastCall.op = "batch_cleanup"

\* The latest call processed an alert of severity sev
Processed(sev) == lastCall.op = "process_alert" /\ lastCall.severity = sev

\* C14: a Medium alert gets one routing record with destination "Tier-2
\* Support", status unresolved, and live_alerts then maps its id to {severity
\* Medium, status unresolved}, whatever the token and the clearance level.
C14_MediumRouted ==
  Processed("Medium")
    => LET rec == Last(decision_logs)
       IN  /\ rec.action = "routing"
           /\ rec.alert_id = str(lastCall.id)
           /\ dict_get(rec, "destination", "") = "Tier-2 Support"
           /\ decision_logs[Len(decision_logs) - 1].action = "classification"
           /\ lastCall.status = "unresolved"
           /\ has_key(live_alerts, lastCall.id)
           /\ item(live_alerts, lastCall.id) =
                [id |-> lastCall.id, severity |-> "Medium", status |-> "unresolved"]

\* A Medium alert routed without token and below the threshold, whose id was
\* cached before as a denied High alert
C14_Witness ==
  /\ Processed("Medium")
  /\ ~lastCall.token /\ lastCall.clearance < REQUIRED_CLEARANCE
  /\ Len(decision_logs) = 4
  /\ decision_logs[2].action = "escalation"
  /\ decision_logs[2].alert_id = str(lastCall.id)
  /\ has_key(live_alerts, lastCall.id)
  /\ item(live_alerts, lastCall.id).severity = "Medium"

\* C15: a Low alert gets one auto_resolution record with decision closed,
\* status resolved, and its id is not in live_alerts afterwards; when the id
\* was not cached the cache is left unchanged, and when it was, only its
\* entry is removed.
C15_LowAutoResolved ==
  [][(ProcessStep /\ lastCall'.severity = "Low")
       => LET rec == Last(decision_logs')
          IN  /\ Len(decision_logs') = Len(decision_logs) + 2
              /\ rec.action = "auto_resolution"
              /\ rec.alert_id = str(lastCall'.id)
              /\ dict_get(rec, "decision", "") = "closed"
              /\ lastCall'.status = "resolved"
              /\ ~has_key(live_alerts', lastCall'.id)
              /\ ~has_key(live_alerts, lastCall'.id) => live_alerts' = live_alerts
              /\ CacheIds(live_alerts') = CacheIds(live_alerts) \ {lastCall'.id}]_vars

\* A Low alert whose id was not cached, processed while another id is cached
C15_Witness ==
  /\ Processed("Low")
  /\ lastCall.status = "resolved"
  /\ Len(decision_logs) = 4
  /\ decision_logs[2].alert_id # str(lastCall.id)
  /\ Len(live_alerts) = 1
  /\ ~has_key(live_alerts, lastCall.id)

\* C16: routing an alert touches nothing but that alert: the call appends its
\* classification record and exactly one routing-step record, every other
\* id's cache entry stays as it was and in the same order, only that id's
\* status is written, and token, clearance level and threshold are unchanged.
C16_RouteFrame ==
  [][ProcessStep =>
       LET aid == lastCall'.id
           others(d) == SelectSeq(d, LAMBDA e : e.id # aid)
       IN  /\ Len(decision_logs') = Len(decision_logs) + 2
           /\ IsPrefix(decision_logs, decision_logs')
           /\ decision_logs'[Len(decision_logs) + 1].action = "classification"
           /\ others(live_alerts') = others(live_alerts)
           /\ \A i \in Ids \ {aid} : lastKnown'[i] = lastKnown[i]
           /\ agent_token_present' = agent_token_present
           /\ agent_clearance_level' = agent_clearance_level]_vars

\* An alert was routed into the cache behind another id's entry, which stayed
C16_Witness ==
  /\ lastCall.op = "process_alert"
  /\ Len(live_alerts) = 2
  /\ live_alerts[2].id = lastCall.id
  /\ live_alerts[1].id # lastCall.id

\* C18: once the resolver has set a cached alert's status to resolved, no
\* core operation rewrites it: the entry keeps status resolved until a sweep
\* evicts it.  (The code does not keep to this: routing the id again upserts
\* or removes the entry.)
C18_ResolvedNotRewritten ==
  [][\A aid \in Ids :
       (has_key(live_alerts, aid) /\ item(live_alerts, aid).status = "resolved")
         => \/ /\ has_key(live_alerts', aid)
               /\ item(live_alerts', aid).status = "resolved"
            \/ /\ SweepStep
               /\ ~has_key(live_alerts', aid)]_vars

(***************************************************************************)
(* Classification on its own: contents made of words, each word labelled   *)
(* with whether a high / a medium keyword occurs in it (in any case).       *)
(***************************************************************************)
Words ==
  << [text |-> <<"m","a","l","w","a","r","e">>,
      high |-> TRUE, medium |-> FALSE],
     [text |-> <<"R","A","N","S","O","M","W","A","R","E">>,
      high |-> TRUE, medium |-> FALSE],
     [text |-> <<"C","r","i","t","i","c","a","l">>,
      high |-> TRUE, medium |-> FALSE],
     [text |-> <<"e","r","r","o","r">>,
      high |-> FALSE, medium |-> TRUE],
     [text |-> <<"F","a","i","l","e","d">>,
      high |-> FALSE, medium |-> TRUE],
     [text |-> <<"P","H","I","S","H","I","N","G">>,
      high |-> FALSE, medium |-> TRUE],
     [text |-> <<"r","e","s","c","a","n","n","e","d">>,
      high |-> FALSE, medium |-> TRUE],
     [text |-> <<"S","c","a","n","n","i","n","g">>,
      high |-> FALSE, medium |-> TRUE],
     [text |-> <<"o","k">>,
      high |-> FALSE, medium |-> FALSE],
     [text |-> <<"m","a","l","w","a","r">>,
      high |-> FALSE, medium |-> FALSE],
     [text |-> <<"c","r","i","t","i","c","a","l","e","r","r","o","r">>,
      high |-> TRUE, medium |-> TRUE],
     [text |-> <<"f","a","i","l">>,
      high |-> FALSE, medium |-> FALSE] >>

WordSeqs == UNION {[1..n -> 1..Len(Words)] : n \in 0..MaxWords}

\* The words joined by single spaces
RECURSIVE join(_, _)
join(ws, i) ==
  IF i > Len(ws) THEN <<>>
  ELSE (IF i > 1 THEN <<" ">> ELSE <<>>) \o Words[ws[i]].text \o join(ws, i + 1)

\* The alert of the feed: with the content made of the words, or without
\* content
feed_alert(in) ==
  IF in.present THEN [id |-> 1, content |-> join(in.words, 1)] ELSE [id |-> 1]

InitClassify ==
  /\ sweep = NoSweep
  /\ live_alerts = <<>>
  /\ agent_token_present = TRUE
  /\ agent_clearance_level = InitialClearance
  /\ decision_logs = <<>>
  /\ alerts_log = <<>>
  /\ now = 0
  /\ calls = 0
  /\ lastKnown = [i \in Ids |-> "none"]
  /\ lastCall \in {[op |-> "feed", present |-> TRUE, words |-> ws] : ws \in WordSeqs}
                  \cup {[op |-> "feed", present |-> FALSE, words |-> <<>>]}

\* severity = classify_alert(alert)
Classify ==
  /\ lastCall.op = "feed"
  /\ lastCall' = [op |-> "classify_alert", present |-> lastCall.present,
                  words |-> lastCall.words,
                  severity |-> classify_alert(feed_alert(lastCall))]
  /\ UNCHANGED <<sweep, live_alerts, agent_token_present, agent_clearance_level,
                 decision_logs, alerts_log, now, calls, lastKnown>>

NextClassify == Classify

SpecClassify == InitClassify /\ [][NextClassify]_vars

\* C13: classify_alert returns High if a high keyword occurs in the content
\* (whether or not a medium keyword occurs too), otherwise Medium if a medium
\* keyword occurs, otherwise Low, also for empty and for missing content.
C13_ClassifyByKeywords ==
  lastCall.op = "classify_alert"
    => LET ws == lastCall.words
       IN  lastCall.severity =
             (IF \E i \in 1..Len(ws) : Words[ws[i]].high THEN "High"
              ELSE IF \E i \in 1..Len(ws) : Words[ws[i]].medium THEN "Medium"
              ELSE "Low")

\* A content with a medium keyword before a high keyword was classified High
C13_Witness ==
  /\ lastCall.op = "classify_alert"
  /\ Len(lastCall.words) = 2
  /\ Words[lastCall.words[1]].medium /\ ~Words[lastCall.words[1]].high
  /\ Words[lastCall.words[2]].high /\ ~Words[lastCall.words[2]].medium
  /\ lastCall.severity = "High"

(***************************************************************************)
(* route_alert called on its own, with whatever severity the caller put on *)
(* the alert.                                                               *)
(***************************************************************************)
Severities == {"High", "Medium", "Low"}

\* The severities a caller may hand to route_alert: the three of
\* classify_alert and one that classify_alert never returns
RoutedSeverities == Severities \cup {"Critical"}

\* route_alert({"id": aid, "severity": sev})
RouteAlert(aid, sev, t) ==
  /\ Len(decision_logs) + 2 <= MaxLog
  /\ calls < MaxLog
  /\ \E r \in {route_alert(state, [id |-> aid, severity |-> sev],
                          agent_token_present, agent_clearance_level, t)} :
         /\ live_alerts' = r.st.live_alerts
         /\ decision_logs' = r.st.decision_logs
         /\ alerts_log' = r.st.alerts_log
         /\ lastCall' = [op |-> "route_alert", id |-> r.alert.id,
                          severity |-> r.alert.severity,
                          status |-> r.alert.status,
                          token |-> agent_token_present,
                          clearance |-> agent_clearance_level]
         /\ lastKnown' = [lastKnown EXCEPT ![aid] = r.alert.status]
  /\ now' = t
  /\ calls' = calls + 1
  /\ UNCHANGED <<sweep, agent_token_present, agent_clearance_level>>

NextRoute ==
  \/ \E c \in ClearanceLevels : SetClearance(c)
  \/ \E b \in BOOLEAN : SetToken(b)
  \/ \E aid \in Ids : MarkResolved(aid)
  \/ \E aid \in Ids : \E sev \in RoutedSeverities : \E t \in Later(now) :
        RouteAlert(aid, sev, t)

SpecRoute == Init /\ [][NextRoute]_vars

\* The step is a route_alert call
RouteStep == calls' = calls + 1 /\ lastCall'.op = "route_alert"

\* C17: a route_alert call on an alert whose severity is none of High,
\* Medium, Low appends no decision record, sets no status on the alert and
\* leaves live_alerts as it was.
C17_InvalidSeverityRejected ==
  [][(RouteStep /\ lastCall'.severity \notin Severities)
       => /\ decision_logs' = decision_logs
          /\ alerts_log' = alerts_log
          /\ live_alerts' = live_alerts
          /\ lastKnown' = lastKnown]_vars

(***************************************************************************)
(* The INSERT of log_decision failing (sqlite3 raises at c.execute): the    *)
(* entry is already appended to decision_logs, no row is written, and the   *)
(* exception leaves log_decision and every caller up to the top.            *)
(***************************************************************************)
\* log_decision up to the raising c.execute
log_decision_raises(st, t, alert_id, action, detail) ==
  LET entry == detail @@ [timestamp |-> timestamp_of[t], alert_id |-> alert_id,
                          action |-> action]
  IN  [st EXCEPT !.decision_logs = Append(@, entry)]

\* route_alert whose log_decision raises: the arm's statements after the
\* log_decision call (status, live_alerts) are not executed
route_alert_raises(st, alert, token, clearance, t) ==
  LET aid == alert.id
      sev == alert.severity
  IN
  IF sev = "High" THEN
    LET branch == escalation_branch(token, clearance)
    IN  [alert |-> alert,
         st |-> log_decision_raises(st, t, str(aid), "escalation",
                                    escalation_detail(branch, clearance))]
  ELSE IF sev = "Medium" THEN
    [alert |-> alert,
     st |-> log_decision_raises(st, t, str(aid), "routing",
                                [destination |-> "Tier-2 Support"])]
  ELSE
    [alert |-> alert,
     st |-> log_decision_raises(st, t, str(aid), "auto_resolution",
                                [decision |-> "closed"])]

\* Which log_decision call of a process_alert call raises, if any
Failures == {"none", "classification", "routing"}

process_alert_fails_routes_first(st, alert, token, clearance, t1, t2, fail) ==
  LET severity == severity_of[alert]
      alert1   == ("severity" :> severity) @@ alert
  IN  IF fail = "routing"
        THEN route_alert_raises(st, alert1, token, clearance, t1)
      ELSE LET routed == route_alert(st, alert1, token, clearance, t1)
           IN  IF fail = "classification"
                 THEN [alert |-> routed.alert,
                       st |-> log_decision_raises(routed.st, t2, str(alert.id),
                                "classification", [severity |-> severity])]
                 ELSE [alert |-> routed.alert,
                       st |-> log_decision(routed.st, t2, str(alert.id),
                                "classification", [severity |-> severity])]

\* process_alert(alert) in which the log_decision call named by fail raises
process_alert_fails(st, alert, token, clearance, t1, t2, fail) ==
  LET severity == severity_of[alert]
      alert1   == ("severity" :> severity) @@ alert
  IN  IF fail = "classification"
        THEN [alert |-> alert1,
              st |-> log_decision_raises(st, t1, str(alert1.id),
                                         "classification", [severity |-> severity])]
      ELSE LET logged == log_decision(st, t1, str(alert1.id), "classification",
                                      [severity |-> severity])
           IN  IF fail = "routing"
                 THEN route_alert_raises(logged, alert1, token, clearance, t2)
                 ELSE route_alert(logged, alert1, token, clearance, t2)

\* batch_cleanup() whose log_decision raises: the loop has already popped
\* the terminal entries; nothing is returned
batch_cleanup_raises(st, t) ==
  LET r == cleanup_loop(st.live_alerts, 1, st.live_alerts, <<>>)
  IN  [removed |-> r.removed,
       st |-> log_decision_raises([st EXCEPT !.live_alerts = r.live_alerts], t,
                                  "batch", "cleanup",
                                  [removed_alerts |-> r.removed])]

\* The latest call ended with the exception
Raised == "raised" \in DOMAIN lastCall /\ lastCall.raised

\* process_alert(alert) in the stream loop, the INSERT possibly failing
ProcessAlertFails(a, t1, t2, fail) ==
  /\ ~Raised
  /\ Len(decision_logs) + 2 <= MaxLog
  /\ calls < MaxLog
  /\ \E r \in {process_alert_fails(state, a, agent_token_present,
                                  agent_clearance_level, t1, t2, fail)} :
         /\ live_alerts' = r.st.live_alerts
         /\ decision_logs' = r.st.decision_logs
         /\ alerts_log' = r.st.alerts_log
         /\ lastCall' = [op |-> "process_alert", id |-> r.alert.id,
                          severity |-> r.alert.severity,
                          status |-> dict_get(r.alert, "status", "none"),
                          token |-> agent_token_present,
                          clearance |-> agent_clearance_level,
                          failed |-> fail, raised |-> fail # "none"]
         /\ lastKnown' = IF "status" \in DOMAIN r.alert
                           THEN [lastKnown EXCEPT ![a.id] = r.alert.status]
                           ELSE lastKnown
  /\ now' = IF fail = "classification" THEN t1 ELSE t2
  /\ calls' = calls + 1
  /\ UNCHANGED <<sweep, agent_token_present, agent_clearance_level>>

\* batch_cleanup(), the INSERT possibly failing
BatchCleanupFails(t, fail) ==
  /\ ~Raised
  /\ Len(decision_logs) + 1 <= MaxLog
  /\ calls < MaxLog
  /\ \E r \in {IF fail THEN batch_cleanup_raises(state, t)
                       ELSE batch_cleanup(state, t)} :
         /\ live_alerts' = r.st.live_alerts
         /\ decision_logs' = r.st.decision_logs
         /\ alerts_log' = r.st.alerts_log
         /\ lastCall' = [op |-> "batch_cleanup", removed |-> r.removed,
                          raised |-> fail]
  /\ now' = t
  /\ calls' = calls + 1
  /\ UNCHANGED <<sweep, agent_token_present, agent_clearance_level, lastKnown>>

NextFail ==
  \/ \E a \in Alerts : \E t1 \in Later(now) : \E t2 \in Later(t1) :
       \E fail \in Failures : ProcessAlertFails(a, t1, t2, fail)
  \/ ~Raised /\ \E c \in ClearanceLevels : SetClearance(c)
  \/ ~Raised /\ \E b \in BOOLEAN : SetToken(b)
  \/ ~Raised /\ \E aid \in Ids : MarkResolved(aid)
  \/ \E t \in Later(now) : \E fail \in BOOLEAN : BatchCleanupFails(t, fail)

SpecFail == Init /\ [][NextFail]_vars

\* The step is a call that ended with the exception
RaisingStep == calls' = calls + 1 /\ "raised" \in DOMAIN lastCall' /\ lastCall'.raised

\* C11: a process_alert or batch_cleanup call whose audit append failed ends
\* with the exception and leaves live_alerts and every alert's status as they
\* were before the call.
C11_FailedAppendNotCommitted ==
  [][RaisingStep => /\ live_alerts' = live_alerts
                    /\ lastKnown' = lastKnown]_vars

\* C12: once a process_alert call has ended, normally, with a denied
\* escalation or with the exception of a failed append, the alert's
\* classification record is in decision_logs; it is also the row of
\* alerts_log written by this call unless the INSERT that failed was the
\* classification's own.
C12_ClassificationRecorded ==
  lastCall.op = "process_alert"
    => LET n == Len(decision_logs)
           m == Len(alerts_log)
           i == IF lastCall.failed = "classification" THEN n ELSE n - 1
           j == IF lastCall.failed = "none" THEN m - 1 ELSE m
       IN  /\ i >= 1
           /\ decision_logs[i].action = "classification"
           /\ decision_logs[i].alert_id = str(lastCall.id)
           /\ decision_logs[i].severity = lastCall.severity
           /\ lastCall.failed # "classification"
                => /\ j >= 1
                   /\ alerts_log[j][1] = str(lastCall.id)
                   /\ alerts_log[j][2] = "classification"
                   /\ alerts_log[j][3] = json_dumps([severity |-> lastCall.severity])

\* A process_alert call ended because the routing record's INSERT failed, and
\* the last row of alerts_log is the alert's classification
C12_Witness ==
  /\ lastCall.op = "process_alert"
  /\ lastCall.failed = "routing"
  /\ Raised
  /\ Last(alerts_log)[1] = str(lastCall.id)
  /\ Last(alerts_log)[2] = "classification"
  /\ Last(decision_logs).action \in RoutingActions

\* C20: decision_logs and alerts_log hold the same number of records, with
\* the same alert id, action and timestamp at each position, after every
\* log_decision call, also after one whose INSERT failed.
C20_ListAndTableInStep ==
  /\ Len(decision_logs) = Len(alerts_log)
  /\ \A i \in 1..Len(decision_logs) :
       i <= Len(alerts_log)
         => /\ alerts_log[i][1] = decision_logs[i].alert_id
            /\ alerts_log[i][2] = decision_logs[i].action
            /\ alerts_log[i][4] = decision_logs[i].timestamp

(***************************************************************************)
(* batch_cleanup running in a thread of its own, process_alert calls of     *)
(* another thread falling between its statements.  The snapshot holds the   *)
(* info dictionaries that were in live_alerts when it was taken; the upsert *)
(* of route_alert puts a new dictionary into live_alerts.  The resolver,    *)
(* which writes into the dictionary the snapshot shares, is kept out of a   *)
(* sweep in progress.                                                       *)
(***************************************************************************)
\* One turn of the loop of batch_cleanup: the test reads the snapshot's info
cleanup_iteration(items, i, cache, removed) ==
  IF dict_get(items[i], "status", "None") \in TerminalStatuses
    THEN [live_alerts |-> dict_pop(cache, items[i].id),
          removed |-> Append(removed, items[i].id)]
    ELSE [live_alerts |-> cache, removed |-> removed]

\* removed = []; list(live_alerts.items())
SweepStart ==
  /\ ~sweep.active
  /\ Len(decision_logs) + 1 <= MaxLog
  /\ calls < MaxLog
  /\ sweep' = [active |-> TRUE, items |-> live_alerts, i |-> 1, removed |-> <<>>]
  /\ UNCHANGED <<live_alerts, agent_token_present, agent_clearance_level,
                 decision_logs, alerts_log, now, calls, lastCall, lastKnown>>

\* The loop's body for the next pair of the snapshot
SweepIter ==
  /\ sweep.active
  /\ sweep.i <= Len(sweep.items)
  /\ \E r \in {cleanup_iteration(sweep.items, sweep.i, live_alerts,
                                sweep.removed)} :
         /\ live_alerts' = r.live_alerts
         /\ sweep' = [sweep EXCEPT !.i = @ + 1, !.removed = r.removed]
  /\ UNCHANGED <<agent_token_present, agent_clearance_level, decision_logs,
                 alerts_log, now, calls, lastCall, lastKnown>>

\* log_decision("batch", "cleanup", ...); return removed
SweepEnd(t) ==
  /\ sweep.active
  /\ sweep.i > Len(sweep.items)
  /\ Len(decision_logs) + 1 <= MaxLog
  /\ \E logged \in {log_decision(state, t, "batch", "cleanup",
                                [removed_alerts |-> sweep.removed])} :
         /\ decision_logs' = logged.decision_logs
         /\ alerts_log' = logged.alerts_log
  /\ lastCall' = [op |-> "batch_cleanup", removed |-> sweep.removed]
  /\ sweep' = NoSweep
  /\ now' = t
  /\ calls' = calls + 1
  /\ UNCHANGED <<live_alerts, agent_token_present, agent_clearance_level,
                 lastKnown>>

NextSweep ==
  \/ \E a \in Alerts : \E t1 \in Later(now) : \E t2 \in Later(t1) :
        ProcessAlert(a, t1, t2)
  \/ \E c \in ClearanceLevels : SetClearance(c)
  \/ \E b \in BOOLEAN : SetToken(b)
  \/ ~sweep.active /\ \E aid \in Ids : MarkResolved(aid)
  \/ SweepStart
  \/ SweepIter
  \/ \E t \in Later(now) : SweepEnd(t)

SpecSweep == Init /\ [][NextSweep]_vars

\* The step is one turn of the loop of a sweep in progress
SweepIterStep == sweep.active /\ sweep'.active /\ sweep'.i = sweep.i + 1

\* C19: a sweep running interleaved with process_alert calls does not delete
\* or report an entry whose status in live_alerts is non-terminal when the
\* sweep's turn for its id comes, as it is after route_alert re-inserted the
\* id as unresolved since the snapshot was taken.
C19_SweepKeepsReinserted ==
  [][SweepIterStep
       => \A aid \in Ids :
            (has_key(live_alerts, aid)
               /\ item(live_alerts, aid).status \notin TerminalStatuses)
              => /\ has_key(live_alerts', aid)
                 /\ item(live_alerts', aid).status = item(live_alerts, aid).status
                 /\ \A k \in 1..Len(sweep'.removed) :
                       k > Len(sweep.removed) => sweep'.removed[k] # aid]_vars

====
